---------------------------- MODULE Spec2Model ----------------------------
(***************************************************************************)
(* Model of app.py: the /upload endpoint, the normalize / transcribe       *)
(* pipeline of process_audio_with_diarization, and its grouping of the     *)
(* recognized words into speaker segments.                                 *)
(*                                                                         *)
(* Times are integers in milliseconds (the code holds float seconds), so   *)
(* that round(x, 2) is a real conversion: rounding to a multiple of 10 ms. *)
(* Texts and filenames are sequences of one-character strings, so that     *)
(* " ".join, str.strip, str.rsplit and str.lower are computed.             *)
(***************************************************************************)
EXTENDS Integers, Sequences, FiniteSets, TLC

VARIABLES
    \* ---- one call of the segment-building part (app.py lines 95-156) ----
    response,       \* the recognition response: [results |-> <<...>>]
    duration_sec,   \* duration of the normalized clip, in ms
    words,          \* alternative.words of the consumed alternative
    idx,            \* position of the for loop (1-based; the code is 0-based)
    scan,           \* the locals current_speaker/current_start/current_words/segments
    bpc,            \* position of the call: "start", "scan", "close", "done"
    path,           \* which return the call took: "none", "no_results", "fallback", "scan"
    \* ---- the HTTP endpoint with concurrent requests (app.py lines 25-93) ----
    req,            \* per request: [has_file, filename, audio]
    pc,             \* per request: position in upload()
    fs,             \* the upload directory: path -> content
    sound,          \* per request: the AudioSegment held in memory
    content,        \* per request: the bytes read back from processed.wav
    submitted,      \* per request: what was sent to the recognition service
    svc,            \* per request: the service's response
    resp,           \* per request: the HTTP response
    stages,         \* per request: the pipeline stages that ran, in order
    rpath           \* per request: which return process_audio_with_diarization took

bvars == <<response, duration_sec, words, idx, scan, bpc, path>>
hvars == <<req, pc, fs, sound, content, submitted, svc, resp, stages, rpath>>
vars == <<response, duration_sec, words, idx, scan, bpc, path,
          req, pc, fs, sound, content, submitted, svc, resp, stages, rpath>>

---------------------------------------------------------------------------
(* Bounds and input domains *)

\* longest word list the service returns in the model
MaxWords == 3

\* speaker tags the diarizer assigns
SpeakerTags == {1, 2}

\* word offsets in ms; 1237 rounds up to 1240 and 2004 rounds down to 2000
TimePoints == {0, 1237, 2004}

\* clip durations in ms, on both sides of the 55 s threshold
Durations == {12346, 61000}

\* word texts: non-empty tokens without whitespace, as the service returns them
WordTexts == {<<"h", "i">>, <<"y", "o">>}

\* transcripts of an alternative that carries no words
Transcripts == {<<" ", "h", "i", " ", "y", "o", " ">>, <<"h", "i">>}

---------------------------------------------------------------------------
(* Python built-ins the code relies on *)

\* round(x, 2) on seconds = nearest multiple of 10 ms; an exact tie goes to
\* the even hundredth (Python 3 rounds half to even). A float such as 2.675
\* is not an exact tie and rounds by its binary value; TimePoints and
\* Durations hold no value ending in 5 ms, so no property rests on a tie.
Round2(ms) ==
    LET lo == (ms \div 10) * 10
        r == ms % 10
    IN  IF r < 5 THEN lo
        ELSE IF r > 5 THEN lo + 10
        ELSE IF (lo \div 10) % 2 = 0 THEN lo ELSE lo + 10

RECURSIVE JoinWords(_)
\* " ".join(list)
JoinWords(ws) ==
    IF ws = <<>> THEN <<>>
    ELSE IF Len(ws) = 1 THEN ws[1]
    ELSE ws[1] \o <<" ">> \o JoinWords(Tail(ws))

RECURSIVE LStrip(_)
LStrip(s) == IF s # <<>> /\ Head(s) = " " THEN LStrip(Tail(s)) ELSE s

RECURSIVE RStrip(_)
RStrip(s) ==
    IF s # <<>> /\ s[Len(s)] = " " THEN RStrip(SubSeq(s, 1, Len(s) - 1)) ELSE s

\* str.strip()
Strip(s) == RStrip(LStrip(s))

---------------------------------------------------------------------------
(* The segment builder: app.py lines 95-156 *)

\* f"Speaker {current_speaker}"
SpeakerLabel(tag) == "Speaker " \o ToString(tag)

\* lines 129-136 and 147-154: the dict appended for a closed run
Segment(speaker, start, end, buf) ==
    [speaker |-> SpeakerLabel(speaker),
     start |-> Round2(start),
     end |-> Round2(end),
     text |-> Strip(JoinWords(buf))]

\* lines 106-113: the dict appended when the alternative has no words
FallbackSegmentRaw(alternative, duration) ==
    [speaker |-> "unknown",
     start |-> 0,
     end |-> duration,
     text |-> alternative.transcript]
FallbackSegment(alternative, duration) ==
    [speaker |-> "unknown",
     start |-> 0,
     end |-> duration,
     text |-> Strip(alternative.transcript)]

\* lines 99-100: result = response.results[-1]; alternative = result.alternatives[0]
Alternative(r) == r.results[Len(r.results)].alternatives[1]

\* line 119: current_words = []
InitialWordsDup(ws) == <<ws[1].word>>
InitialWords(ws) == <<>>

\* lines 117-119: the locals before the loop
ScanInit(ws) ==
    [current_speaker |-> ws[1].speaker_tag,
     current_start |-> ws[1].start_time,
     current_words |-> InitialWords(ws),
     segments |-> <<>>]

\* lines 127-128: last_word = words[idx - 1]; end_time = last_word.end_time
RunEndNewStart(ws, i) == ws[i].start_time
RunEnd(ws, i) == ws[i - 1].end_time

\* line 138: current_speaker = speaker
NextSpeakerKept(speaker, current) == current
NextSpeaker(speaker, current) == speaker

\* lines 122-142: one iteration of the for loop, on word i
ScanBody(st, ws, i) ==
    LET speaker == ws[i].speaker_tag
        word_text == ws[i].word
    IN  IF speaker # st.current_speaker
        THEN [current_speaker |-> NextSpeaker(speaker, st.current_speaker),
              current_start |-> ws[i].start_time,
              current_words |-> <<word_text>>,
              segments |-> Append(st.segments,
                                  Segment(st.current_speaker, st.current_start,
                                          RunEnd(ws, i), st.current_words))]
        ELSE [st EXCEPT !.current_words = Append(@, word_text)]

\* lines 145-146: last_word = words[-1]; last_end = last_word.end_time
LastEndFirstWord(ws) == ws[1].end_time
LastEnd(ws) == ws[Len(ws)].end_time

\* lines 147-156: close the last run and return
ScanClose(st, ws) ==
    Append(st.segments,
           Segment(st.current_speaker, st.current_start, LastEnd(ws),
                   st.current_words))

RECURSIVE ScanFrom(_, _, _)
\* lines 121-142: the whole loop from word i on
ScanFrom(st, ws, i) ==
    IF i > Len(ws) THEN st ELSE ScanFrom(ScanBody(st, ws, i), ws, i + 1)

\* line 96: return []
NoResultSegments == <<>>

\* lines 95-156 as a function: the segments returned and the return taken
BuildSegments(r, duration) ==
    IF r.results = <<>>
    THEN [segments |-> NoResultSegments, path |-> "no_results"]
    ELSE IF Alternative(r).words = <<>>
    THEN [segments |-> <<FallbackSegment(Alternative(r), duration)>>,
          path |-> "fallback"]
    ELSE LET ws == Alternative(r).words
         IN  [segments |-> ScanClose(ScanFrom(ScanInit(ws), ws, 1), ws),
              path |-> "scan"]

---------------------------------------------------------------------------
(* Inputs of the segment builder *)

\* a RecognizedWord: start_time <= end_time
Words ==
    {w \in [word : WordTexts, speaker_tag : SpeakerTags,
            start_time : TimePoints, end_time : TimePoints] :
        w.start_time <= w.end_time}

\* word lists ordered by non-decreasing start_time (the service's contract)
WordLists ==
    UNION {{ws \in [1..n -> Words] :
               \A i \in 1..(n - 1) : ws[i].start_time <= ws[i + 1].start_time} :
           n \in 0..MaxWords}

\* an earlier result chunk: its words carry no diarization and are not consumed
EarlierResult ==
    [alternatives |-> <<[transcript |-> <<"h", "i">>,
                         words |-> <<[word |-> <<"h", "i">>, speaker_tag |-> 0,
                                      start_time |-> 0, end_time |-> 0]>>]>>]

\* responses whose last result carries the word list ws
ResponsesWith(ws, t) ==
    LET last == [alternatives |-> <<[transcript |-> t, words |-> ws]>>]
    IN  {[results |-> <<last>>], [results |-> <<EarlierResult, last>>]}

NoLocals ==
    [current_speaker |-> 0, current_start |-> 0, current_words |-> <<>>,
     segments |-> <<>>]

HttpIdle ==
    /\ req = <<>> /\ pc = <<>> /\ fs = <<>> /\ sound = <<>> /\ content = <<>>
    /\ submitted = <<>> /\ svc = <<>> /\ resp = <<>> /\ stages = <<>>
    /\ rpath = <<>>

InitSeg ==
    /\ duration_sec \in Durations
    /\ \/ response = [results |-> <<>>]
       \/ \E ws \in WordLists :
            /\ ws # <<>>
            /\ response \in ResponsesWith(ws, JoinWords([i \in 1..Len(ws) |-> ws[i].word]))
       \/ \E t \in Transcripts : response \in ResponsesWith(<<>>, t)
    /\ words = <<>>
    /\ idx = 0
    /\ scan = NoLocals
    /\ bpc = "start"
    /\ path = "none"
    /\ HttpIdle

\* lines 95-96
NoResults ==
    /\ bpc = "start"
    /\ response.results = <<>>
    /\ scan' = [scan EXCEPT !.segments = NoResultSegments]
    /\ bpc' = "done"
    /\ path' = "no_results"
    /\ UNCHANGED <<response, duration_sec, words, idx, hvars>>

\* lines 99-114
Fallback ==
    /\ bpc = "start"
    /\ response.results # <<>>
    /\ Alternative(response).words = <<>>
    /\ scan' = [scan EXCEPT !.segments =
                   <<FallbackSegment(Alternative(response), duration_sec)>>]
    /\ bpc' = "done"
    /\ path' = "fallback"
    /\ UNCHANGED <<response, duration_sec, words, idx, hvars>>

\* lines 99-104 and 117-119
BeginScan ==
    /\ bpc = "start"
    /\ response.results # <<>>
    /\ Alternative(response).words # <<>>
    /\ words' = Alternative(response).words
    /\ scan' = ScanInit(Alternative(response).words)
    /\ idx' = 1
    /\ bpc' = "scan"
    /\ path' = "scan"
    /\ UNCHANGED <<response, duration_sec, hvars>>

\* lines 121-142: one iteration
ScanWord ==
    /\ bpc = "scan"
    /\ idx <= Len(words)
    /\ scan' = ScanBody(scan, words, idx)
    /\ idx' = idx + 1
    /\ UNCHANGED <<response, duration_sec, words, bpc, path, hvars>>

\* lines 144-156
CloseLast ==
    /\ bpc = "scan"
    /\ idx > Len(words)
    /\ scan' = [scan EXCEPT !.segments = ScanClose(scan, words)]
    /\ bpc' = "done"
    /\ UNCHANGED <<response, duration_sec, words, idx, path, hvars>>

NextSeg == NoResults \/ Fallback \/ BeginScan \/ ScanWord \/ CloseLast

SpecSeg == InitSeg /\ [][NextSeg]_vars

---------------------------------------------------------------------------
(* The upload endpoint and the pipeline: app.py lines 16-19 and 25-93 *)

\* concurrent requests (the server handles each request in its own thread)
Requests == {"r1", "r2"}

Upper == <<"A", "B", "C", "D", "E", "F", "G", "H", "I", "J", "K", "L", "M",
           "N", "O", "P", "Q", "R", "S", "T", "U", "V", "W", "X", "Y", "Z">>
Lower == <<"a", "b", "c", "d", "e", "f", "g", "h", "i", "j", "k", "l", "m",
           "n", "o", "p", "q", "r", "s", "t", "u", "v", "w", "x", "y", "z">>

\* str.lower()
LowerStr(s) ==
    [n \in 1..Len(s) |->
        IF \E k \in 1..Len(Upper) : Upper[k] = s[n]
        THEN Lower[CHOOSE k \in 1..Len(Upper) : Upper[k] = s[n]]
        ELSE s[n]]

HasDot(s) == \E n \in 1..Len(s) : s[n] = "."

RECURSIVE AfterLastDot(_)
\* filename.rsplit(".", 1)[1], for a filename that holds a dot
AfterLastDot(s) ==
    IF s[Len(s)] = "." THEN <<>>
    ELSE Append(AfterLastDot(SubSeq(s, 1, Len(s) - 1)), s[Len(s)])

RECURSIVE UpToDot(_)
UpToDot(s) ==
    IF s = <<>> \/ Head(s) = "." THEN <<>> ELSE <<Head(s)>> \o UpToDot(Tail(s))

RECURSIVE AfterFirstDot(_)
AfterFirstDot(s) == IF Head(s) = "." THEN Tail(s) ELSE AfterFirstDot(Tail(s))

\* line 18
ALLOWED_EXTENSIONS ==
    {<<"w", "a", "v">>, <<"m", "p", "3">>, <<"f", "l", "a", "c">>,
     <<"m", "4", "a">>}

\* filename.split(".")[1] in place of rsplit(".", 1)[1]
allowed_file_split(filename) ==
    HasDot(filename)
        /\ LowerStr(UpToDot(AfterFirstDot(filename))) \in ALLOWED_EXTENSIONS

\* lines 16-19
allowed_file(filename) ==
    HasDot(filename) /\ LowerStr(AfterLastDot(filename)) \in ALLOWED_EXTENSIONS

\* filenames a client may send
Filenames ==
    {<<>>,
     <<"a", ".", "w", "a", "v">>,
     <<"b", ".", "M", "P", "3">>,
     <<"s", "o", "n", "g", ".", "x", "y", "z">>,
     <<"w", "a", "v">>,
     <<"a", ".", "w", "a", "v", ".", "t", "x", "t">>}

\* line 9 with os.path.join
UPLOAD_FOLDER == <<"u", "p", "l", "o", "a", "d", "s", "/">>

\* line 39: os.path.join(app.config["UPLOAD_FOLDER"], file.filename)
UploadPath(filename) == UPLOAD_FOLDER \o filename

\* line 58: os.path.join(UPLOAD_FOLDER, "processed.wav")
ProcessedPath ==
    UPLOAD_FOLDER \o <<"p", "r", "o", "c", "e", "s", "s", "e", "d", ".", "w", "a", "v">>

Paths == {UploadPath(f) : f \in Filenames} \cup {ProcessedPath}

\* an uploaded recording: whose it is and how long it plays (ms)
Audio(r, d) == [owner |-> r, duration |-> d, format |-> "raw"]
NoAudio == [owner |-> "none", duration |-> 0, format |-> "none"]

\* lines 56-57: AudioSegment.from_file(...).set_channels(1).set_frame_rate(16000)
Normalize(a) == [a EXCEPT !.format = "wav_mono_16k"]

\* what a client sends
RequestInputs(r) ==
    {[has_file |-> FALSE, filename |-> <<>>, audio |-> NoAudio]}
        \cup {[has_file |-> TRUE, filename |-> f, audio |-> Audio(r, d)] :
                f \in Filenames, d \in Durations}

\* HTTP responses
NoResponse == [status |-> 0, kind |-> "none", error |-> "", segments |-> <<>>]

\* jsonify({"error": message}), code
JsonError(code, message) ==
    [status |-> code, kind |-> "json", error |-> message, segments |-> <<>>]

\* line 44: jsonify({"segments": segments}), with the default status 200
JsonSegmentsEmptyAsError(segs) ==
    IF segs = <<>>
    THEN [status |-> 500, kind |-> "json", error |-> "no speech", segments |-> <<>>]
    ELSE [status |-> 200, kind |-> "json", error |-> "", segments |-> segs]
JsonSegments(segs) ==
    [status |-> 200, kind |-> "json", error |-> "", segments |-> segs]

\* an exception that leaves upload(): the framework answers, not line 47
UnhandledError ==
    [status |-> 500, kind |-> "framework_error_page", error |-> "",
     segments |-> <<>>]

\* line 87: duration_sec > 55 (seconds)
LONG_THRESHOLD_MS == 55000

\* lines 87-93: the call and the model chosen
CallFor(duration) ==
    IF duration > LONG_THRESHOLD_MS
    THEN [call |-> "long_running_recognize", model |-> "latest_long"]
    ELSE [call |-> "recognize", model |-> "latest_short"]

NotSubmitted == [sent |-> FALSE, audio |-> NoAudio, duration |-> 0,
                 call |-> "none", model |-> "none"]

NotCalled == [outcome |-> "none", results |-> <<>>]

\* what the recognition service may answer
ServiceResponses ==
    {[results |-> <<>>]}
        \cup ResponsesWith(<<>>, <<" ", "h", "i", " ">>)
        \cup ResponsesWith(
                <<[word |-> <<"h", "i">>, speaker_tag |-> 1,
                   start_time |-> 0, end_time |-> 1237],
                  [word |-> <<"y", "o">>, speaker_tag |-> 2,
                   start_time |-> 1237, end_time |-> 2004]>>,
                <<"h", "i", " ", "y", "o">>)

BuilderIdle ==
    /\ response = [results |-> <<>>]
    /\ duration_sec = 0
    /\ words = <<>>
    /\ idx = 0
    /\ scan = NoLocals
    /\ bpc = "idle"
    /\ path = "none"

Init ==
    /\ BuilderIdle
    /\ req \in [Requests -> UNION {RequestInputs(r) : r \in Requests}]
    /\ \A r \in Requests : req[r] \in RequestInputs(r)
    /\ pc = [r \in Requests |-> "received"]
    /\ fs = [p \in Paths |-> NoAudio]
    /\ sound = [r \in Requests |-> NoAudio]
    /\ content = [r \in Requests |-> NoAudio]
    /\ submitted = [r \in Requests |-> NotSubmitted]
    /\ svc = [r \in Requests |-> NotCalled]
    /\ resp = [r \in Requests |-> NoResponse]
    /\ stages = [r \in Requests |-> <<>>]
    /\ rpath = [r \in Requests |-> "none"]

\* line 47: an exception caught by upload()'s try
Fail(r, message) ==
    /\ resp' = [resp EXCEPT ![r] = JsonError(500, message)]
    /\ pc' = [pc EXCEPT ![r] = "done"]

\* lines 28-36: the three checks, in order
Validate(r) ==
    /\ pc[r] = "received"
    /\ IF ~req[r].has_file
       THEN /\ resp' = [resp EXCEPT ![r] = JsonError(400, "No file part in request")]
            /\ pc' = [pc EXCEPT ![r] = "done"]
       ELSE IF req[r].filename = <<>>
       THEN /\ resp' = [resp EXCEPT ![r] = JsonError(400, "No file selected")]
            /\ pc' = [pc EXCEPT ![r] = "done"]
       ELSE IF ~allowed_file(req[r].filename)
       THEN /\ resp' = [resp EXCEPT ![r] = JsonError(400, "Unsupported file type")]
            /\ pc' = [pc EXCEPT ![r] = "done"]
       ELSE /\ pc' = [pc EXCEPT ![r] = "validated"]
            /\ UNCHANGED resp
    /\ UNCHANGED <<req, fs, sound, content, submitted, svc, stages, rpath, bvars>>

\* File writes and reads are taken as atomic steps: the coarsest interleaving
\* of the threads. A torn read of a file being rewritten only adds behaviours.

\* lines 39-40: file.save(filepath), before the try of line 42; it may raise
\* (the directory named inside the filename is missing, the disk is full)
Save(r) ==
    /\ pc[r] = "validated"
    /\ stages' = [stages EXCEPT ![r] = Append(@, "save")]
    /\ \E ok \in BOOLEAN :
         IF ok
         THEN /\ fs' = [fs EXCEPT ![UploadPath(req[r].filename)] = req[r].audio]
              /\ pc' = [pc EXCEPT ![r] = "saved"]
              /\ UNCHANGED resp
         ELSE /\ resp' = [resp EXCEPT ![r] = UnhandledError]
              /\ pc' = [pc EXCEPT ![r] = "done"]
              /\ UNCHANGED fs
    /\ UNCHANGED <<req, sound, content, submitted, svc, rpath, bvars>>

\* lines 56-57: decode the file at input_path and normalize it in memory
Load(r) ==
    /\ pc[r] = "saved"
    /\ stages' = [stages EXCEPT ![r] = Append(@, "normalize")]
    /\ \E ok \in BOOLEAN :
         IF ok
         THEN /\ sound' = [sound EXCEPT ![r] =
                              Normalize(fs[UploadPath(req[r].filename)])]
              /\ pc' = [pc EXCEPT ![r] = "loaded"]
              /\ UNCHANGED resp
         ELSE /\ Fail(r, "decode failed")
              /\ UNCHANGED sound
    /\ UNCHANGED <<req, fs, content, submitted, svc, rpath, bvars>>

\* lines 58-61: sound.export(processed_path, format="wav")
Export(r) ==
    /\ pc[r] = "loaded"
    /\ fs' = [fs EXCEPT ![ProcessedPath] = sound[r]]
    /\ pc' = [pc EXCEPT ![r] = "exported"]
    /\ UNCHANGED <<req, sound, content, submitted, svc, resp, stages, rpath, bvars>>

\* lines 64-65: content = f.read() of processed_path
ReadBack(r) ==
    /\ pc[r] = "exported"
    /\ content' = [content EXCEPT ![r] = fs[ProcessedPath]]
    /\ pc' = [pc EXCEPT ![r] = "read"]
    /\ UNCHANGED <<req, fs, sound, submitted, svc, resp, stages, rpath, bvars>>

\* lines 67-93: submit content; duration_sec (line 61) picks the call
Recognize(r) ==
    /\ pc[r] = "read"
    /\ stages' = [stages EXCEPT ![r] = Append(@, "transcribe")]
    /\ submitted' = [submitted EXCEPT ![r] =
                        [sent |-> TRUE, audio |-> content[r],
                         duration |-> sound[r].duration,
                         call |-> CallFor(sound[r].duration).call,
                         model |-> CallFor(sound[r].duration).model]]
    /\ \/ \E a \in ServiceResponses :
            /\ svc' = [svc EXCEPT ![r] = [outcome |-> "ok", results |-> a.results]]
            /\ pc' = [pc EXCEPT ![r] = "transcribed"]
            /\ UNCHANGED resp
       \/ /\ svc' = [svc EXCEPT ![r] = [outcome |-> "error", results |-> <<>>]]
          /\ Fail(r, "recognition failed")
    /\ UNCHANGED <<req, fs, sound, content, rpath, bvars>>

\* lines 95-156 and 44: build the segments and answer
Respond(r) ==
    /\ pc[r] = "transcribed"
    /\ LET built == BuildSegments([results |-> svc[r].results], sound[r].duration)
       IN  /\ rpath' = [rpath EXCEPT ![r] = built.path]
           /\ resp' = [resp EXCEPT ![r] = JsonSegments(built.segments)]
    /\ stages' = [stages EXCEPT ![r] = @ \o <<"segment", "respond">>]
    /\ pc' = [pc EXCEPT ![r] = "done"]
    /\ UNCHANGED <<req, fs, sound, content, submitted, svc, bvars>>

Next ==
    \E r \in Requests :
        \/ Validate(r)
        \/ Save(r)
        \/ Load(r)
        \/ Export(r)
        \/ ReadBack(r)
        \/ Recognize(r)
        \/ Respond(r)

Spec == Init /\ [][Next]_vars

---------------------------------------------------------------------------
(* Properties of the segment builder, checked under SpecSeg *)

Returned == bpc = "done"

segments == scan.segments

\* the word list the call consumed, read off the response
InputWords ==
    IF response.results = <<>> THEN <<>>
    ELSE response.results[Len(response.results)].alternatives[1].words

InputTranscript ==
    response.results[Len(response.results)].alternatives[1].transcript

\* first positions of the maximal runs of consecutive equal speaker tags
RunStarts(ws) ==
    {i \in 1..Len(ws) : i = 1 \/ ws[i].speaker_tag # ws[i - 1].speaker_tag}

\* first and last position of the k-th run
RunFirst(ws, k) ==
    CHOOSE i \in RunStarts(ws) : Cardinality({j \in RunStarts(ws) : j < i}) = k - 1

RunLast(ws, k) ==
    IF k = Cardinality(RunStarts(ws)) THEN Len(ws) ELSE RunFirst(ws, k + 1) - 1

TagsOf(ws) == [i \in 1..Len(ws) |-> ws[i].speaker_tag]

\* C1: for a non-empty word list the call returns as many segments as there
\* are maximal runs of consecutive equal speaker tags, and any two consecutive
\* segments carry different speaker labels (non-adjacent runs of one speaker
\* are not merged).
C1_SegmentPerRun ==
    (Returned /\ InputWords # <<>>) =>
        /\ Len(segments) = Cardinality(RunStarts(InputWords))
        /\ \A k \in 1..(Len(segments) - 1) :
             segments[k].speaker # segments[k + 1].speaker

C1_Witness ==
    /\ Returned
    /\ TagsOf(InputWords) = <<1, 2, 1>>
    /\ Len(segments) = 3
    /\ segments[1].speaker = segments[3].speaker

\* C2: for a non-empty word list, the segments' texts joined with single
\* spaces, in output order, are the words' texts joined with single spaces in
\* input order: no word dropped, duplicated or reordered.
C2_TextPreserved ==
    (Returned /\ InputWords # <<>>) =>
        JoinWords([k \in 1..Len(segments) |-> segments[k].text])
            = JoinWords([i \in 1..Len(InputWords) |-> InputWords[i].word])

C2_Witness ==
    /\ Returned
    /\ Len(InputWords) = 3
    /\ Len(segments) = 2
    /\ InputWords[1].word # InputWords[2].word
    /\ InputWords[2].speaker_tag # InputWords[3].speaker_tag

\* C3 as amended: for a non-empty word list there is one segment per run; its
\* start is the start_time of the run's first word rounded to 2 decimals and
\* its end is the end_time of the run's last word rounded to 2 decimals.
C3_RunBoundsRounded ==
    (Returned /\ InputWords # <<>>) =>
        /\ Len(segments) = Cardinality(RunStarts(InputWords))
        /\ \A k \in 1..Len(segments) :
             /\ segments[k].start
                    = Round2(InputWords[RunFirst(InputWords, k)].start_time)
             /\ segments[k].end
                    = Round2(InputWords[RunLast(InputWords, k)].end_time)

\* C3 as stated: each segment's start is the start_time of the first word of
\* its run and its end is the end_time of the last word of that run.
C3_RunBoundsExact ==
    (Returned /\ InputWords # <<>>) =>
        /\ Len(segments) = Cardinality(RunStarts(InputWords))
        /\ \A k \in 1..Len(segments) :
             /\ segments[k].start = InputWords[RunFirst(InputWords, k)].start_time
             /\ segments[k].end = InputWords[RunLast(InputWords, k)].end_time

C3_Witness ==
    /\ Returned
    /\ TagsOf(InputWords) = <<1, 1, 2>>
    /\ Len(segments) = 2
    /\ InputWords[2].end_time < InputWords[3].start_time
    /\ segments[1].end # InputWords[2].end_time
    /\ segments[1].end = Round2(InputWords[2].end_time)

\* C4: every returned segment has start <= end, for word lists ordered by
\* non-decreasing start_time, and for the fallback segment of an empty list.
C4_StartBeforeEnd ==
    Returned => \A k \in 1..Len(segments) : segments[k].start <= segments[k].end

C4_Witness ==
    /\ Returned
    /\ path = "scan"
    /\ Len(segments) = 2
    /\ segments[2].start = segments[2].end
    /\ segments[1].start < segments[1].end

\* t is s without its leading and trailing spaces
IsStripOf(t, s) ==
    /\ t = <<>> \/ (t[1] # " " /\ t[Len(t)] # " ")
    /\ \E i \in 1..(Len(s) + 1) : \E j \in 0..Len(s) :
         /\ t = SubSeq(s, i, j)
         /\ \A n \in 1..Len(s) : (n < i \/ n > j) => s[n] = " "

\* C5: a response with at least one result whose consumed alternative has no
\* words gives exactly one segment: speaker "unknown", start 0.0, end the
\* clip's duration, text the transcript without surrounding whitespace.
C5_FallbackSegment ==
    (Returned /\ response.results # <<>> /\ InputWords = <<>>) =>
        /\ Len(segments) = 1
        /\ segments[1].speaker = "unknown"
        /\ segments[1].start = 0
        /\ segments[1].end = duration_sec
        /\ IsStripOf(segments[1].text, InputTranscript)

C5_Witness ==
    /\ Returned
    /\ path = "fallback"
    /\ Len(segments) = 1
    /\ Len(segments[1].text) < Len(InputTranscript)

\* C10: every start and end of every returned segment is rounded to 2
\* decimals (a multiple of 10 ms), on the speaker-change, final and fallback
\* paths alike.
C10_AllRounded ==
    Returned =>
        \A k \in 1..Len(segments) :
            segments[k].start % 10 = 0 /\ segments[k].end % 10 = 0

---------------------------------------------------------------------------
(* Properties of the upload endpoint, checked under Spec *)

\* the part of the filename after its last dot, lower-cased, is an allowed one
HasAllowedExtension(fn) ==
    \E n \in 1..Len(fn) :
        /\ fn[n] = "."
        /\ \A m \in (n + 1)..Len(fn) : fn[m] # "."
        /\ LowerStr(SubSeq(fn, n + 1, Len(fn)))
               \in {<<"w", "a", "v">>, <<"m", "p", "3">>, <<"f", "l", "a", "c">>,
                    <<"m", "4", "a">>}

\* the 400 message a request must get, "" when it passes validation
ExpectedRejection(r) ==
    IF ~req[r].has_file THEN "No file part in request"
    ELSE IF req[r].filename = <<>> THEN "No file selected"
    ELSE IF ~HasAllowedExtension(req[r].filename) THEN "Unsupported file type"
    ELSE ""

\* request r wrote nothing and invoked neither normalization nor the service
Untouched(r) ==
    /\ stages[r] = <<>>
    /\ \A p \in Paths : fs[p].owner # r
    /\ sound[r] = NoAudio
    /\ ~submitted[r].sent
    /\ svc[r].outcome = "none"

\* C6: when the service returns no results the request is answered 200 with
\* {"segments": []}: never an error response, and the word-grouping scan is
\* not reached.
C6_NoResultsEmpty200 ==
    \A r \in Requests :
        (pc[r] = "done" /\ svc[r].outcome = "ok" /\ svc[r].results = <<>>) =>
            /\ resp[r].status = 200
            /\ resp[r].kind = "json"
            /\ resp[r].error = ""
            /\ resp[r].segments = <<>>
            /\ rpath[r] = "no_results"

C6_Witness ==
    \E r \in Requests :
        /\ pc[r] = "done"
        /\ svc[r].outcome = "ok"
        /\ svc[r].results = <<>>
        /\ resp[r].status = 200
        /\ stages[r][Len(stages[r])] = "respond"

\* C7: a request without a file part gets 400 "No file part in request", one
\* with an empty filename 400 "No file selected", one whose extension after the
\* last dot (case-insensitive) is not wav/mp3/flac/m4a, or that has no dot,
\* 400 "Unsupported file type", checked in that order; such a request writes
\* nothing to the upload directory and invokes neither normalization nor the
\* recognition service.
C7_ValidationFirst ==
    \A r \in Requests :
        ExpectedRejection(r) # "" =>
            /\ Untouched(r)
            /\ pc[r] \in {"received", "done"}
            /\ pc[r] = "received" => resp[r] = NoResponse
            /\ pc[r] = "done" =>
                 /\ resp[r].status = 400
                 /\ resp[r].kind = "json"
                 /\ resp[r].error = ExpectedRejection(r)

C7_Witness ==
    \E r \in Requests : \E q \in Requests :
        /\ pc[r] = "done"
        /\ req[r].filename = <<"a", ".", "w", "a", "v", ".", "t", "x", "t">>
        /\ resp[r].error = "Unsupported file type"
        /\ pc[q] = "done"
        /\ resp[q].status = 200
        /\ fs[ProcessedPath].owner = q

StageOrder == <<"save", "normalize", "transcribe", "segment", "respond">>

IsPrefix(s, t) == Len(s) <= Len(t) /\ s = SubSeq(t, 1, Len(s))

\* C8: a validated upload runs save, normalize, transcribe, segment, respond
\* in that order and ends in exactly one outcome: 200 with the segments when
\* every stage succeeded, or 500 {"error": message} when a stage after
\* validation failed (the save included), no later stage having run.
C8_OneJsonOutcome ==
    \A r \in Requests :
        ExpectedRejection(r) = "" =>
            /\ IsPrefix(stages[r], StageOrder)
            /\ pc[r] # "done" => resp[r] = NoResponse
            /\ pc[r] = "done" =>
                 \/ /\ resp[r].status = 200
                    /\ resp[r].kind = "json"
                    /\ stages[r] = StageOrder
                 \/ /\ resp[r].status = 500
                    /\ resp[r].kind = "json"
                    /\ resp[r].error # ""
                    /\ stages[r] # <<>>
                    /\ Len(stages[r]) < Len(StageOrder)

\* C9: the audio a request submits to the recognition service, and the
\* duration that picks its call path, are those of its own normalized upload.
C9_OwnAudioSubmitted ==
    \A r \in Requests :
        submitted[r].sent =>
            /\ submitted[r].audio = Normalize(req[r].audio)
            /\ submitted[r].duration = req[r].audio.duration
            /\ submitted[r].call = CallFor(req[r].audio.duration).call

=============================================================================
